---- MODULE Spec2Model ----
(***************************************************************************)
(* Model of mex_listfiles.cpp: the MATLAB gateway mexFunction that lists   *)
(* the immediate contents of a folder and returns, per entry, the full     *)
(* path, the file name and a uint8 file-type code.                         *)
(*                                                                         *)
(* A path (std::filesystem::path, and the std::string it converts to) is   *)
(* modelled by its native string, written as a sequence of tokens in which *)
(* the separator "/" is a token of its own: "/d/a" is <<"/","d","/","a">>. *)
(***************************************************************************)
EXTENDS Integers, Sequences, FiniteSets, TLC

VARIABLES nargin, nargout, arg0IsChar, arg0Folder, arg1IsLogical, arg1Value,
          pc, errmsg, thrownBy,
          folder, make_canonical,
          fsys, scan, removed,
          paths, N, out_filepaths, out_filenames, p_out_type, i, p, outputs

vars == <<nargin, nargout, arg0IsChar, arg0Folder, arg1IsLogical, arg1Value,
          pc, errmsg, thrownBy, folder, make_canonical, fsys, scan, removed,
          paths, N, out_filepaths, out_filenames, p_out_type, i, p, outputs>>

inputs == <<nargin, nargout, arg0IsChar, arg0Folder, arg1IsLogical, arg1Value>>

-----------------------------------------------------------------------------
(* Bounds of the model *)

MaxEntries == 2
MaxNargin == 3
MaxOutputs == 3
MaxNargout == 4

-----------------------------------------------------------------------------
(* The file system the calls are run against *)

Sep == "/"
Names == {"a", "b", "c"}

Root == <<Sep>>
CanonDir == <<Sep, "d">>
OutFile == <<Sep, "x", Sep, "t">>

FolderD == <<Sep, "d">>
FolderRel == <<"d">>
FolderNx == <<Sep, "nx">>
FolderF == <<Sep, "f">>
FolderEmpty == <<>>

DirFolders == {FolderD, FolderRel}
Folders == DirFolders \cup {FolderNx, FolderF, FolderEmpty}

PlainKinds == {"regular", "directory", "fifo", "socket", "other"}
Targets == Names \cup {"ROOT", "OUT", "DENIED"}
Nodes == [kind : PlainKinds, target : {""}] \cup [kind : {"symlink"}, target : Targets]

Range(s) == {s[k] : k \in DOMAIN s}
Orders == UNION {{s \in [1..n -> Names] : \A j, k \in 1..n : j # k => s[j] # s[k]} : n \in 0..MaxEntries}
EmptyWorld == [order |-> <<>>, fs |-> <<>>]
AllWorlds == UNION {{[order |-> s, fs |-> f] : f \in [Range(s) -> Nodes]} : s \in Orders}

OpensAsDirectory(f) == f \in DirFolders
Worlds(f) == IF OpensAsDirectory(f) THEN AllWorlds ELSE {EmptyWorld}

-----------------------------------------------------------------------------
(* std::filesystem *)

Last(s) == s[Len(s)]

PathAppend(q, name) ==
    IF q = <<>> THEN <<name>>
    ELSE IF Last(q) = Sep THEN Append(q, name)
    ELSE q \o <<Sep, name>>

filename_parent(q) ==
    IF Len(q) >= 3 THEN q[Len(q) - 2] ELSE ""

filename(q) ==
    IF q = <<>> THEN ""
    ELSE IF Last(q) = Sep THEN ""
    ELSE Last(q)

TypeOfKind(k) ==
    CASE k = "other" -> "unknown"
      [] OTHER -> k

RECURSIVE Resolve(_, _, _, _)
Resolve(fs, rm, n, visited) ==
    IF n \notin DOMAIN fs \/ n \in rm
    THEN [err |-> "ENOENT", path |-> <<>>, type |-> "not_found"]
    ELSE LET nd == fs[n] IN
         CASE nd.kind = "symlink" ->
                IF n \in visited THEN [err |-> "ELOOP", path |-> <<>>, type |-> "none"]
                ELSE CASE nd.target = "ROOT" -> [err |-> "OK", path |-> Root, type |-> "directory"]
                       [] nd.target = "OUT" -> [err |-> "OK", path |-> OutFile, type |-> "regular"]
                       [] nd.target = "DENIED" -> [err |-> "EACCES", path |-> <<>>, type |-> "none"]
                       [] OTHER -> Resolve(fs, rm, nd.target, visited \cup {n})
           [] OTHER -> [err |-> "OK", path |-> PathAppend(CanonDir, n), type |-> TypeOfKind(nd.kind)]

InListedDir(q) ==
    /\ Len(q) >= 1
    /\ Last(q) \in Names
    /\ \E f \in DirFolders : PathAppend(f, Last(q)) = q

Stat(fs, rm, q) ==
    IF q = Root THEN [err |-> "OK", path |-> Root, type |-> "directory"]
    ELSE IF q = OutFile THEN [err |-> "OK", path |-> OutFile, type |-> "regular"]
    ELSE IF InListedDir(q) THEN Resolve(fs, rm, Last(q), {})
    ELSE [err |-> "ENOENT", path |-> <<>>, type |-> "not_found"]

weakly_canonical(fs, rm, q) ==
    LET r == Stat(fs, rm, q) IN
    IF r.err = "OK" THEN [threw |-> FALSE, path |-> r.path]
    ELSE [threw |-> FALSE, path |-> q]

canonical(fs, rm, q) ==
    LET r == Stat(fs, rm, q) IN
    IF r.err = "OK" THEN [threw |-> FALSE, path |-> r.path]
    ELSE [threw |-> TRUE, path |-> <<>>]

symlink_status(fs, rm, q) ==
    LET r == Stat(fs, rm, q) IN
    IF InListedDir(q) /\ Last(q) \in DOMAIN fs \ rm /\ fs[Last(q)].kind = "symlink"
    THEN [threw |-> FALSE, type |-> "symlink"]
    ELSE IF r.err = "OK" THEN [threw |-> FALSE, type |-> r.type]
    ELSE IF r.err = "ENOENT" THEN [threw |-> FALSE, type |-> "not_found"]
    ELSE [threw |-> TRUE, type |-> "none"]

status(fs, rm, q) ==
    LET r == Stat(fs, rm, q) IN
    IF r.err = "OK" THEN [threw |-> FALSE, type |-> r.type]
    ELSE IF r.err = "ENOENT" THEN [threw |-> FALSE, type |-> "not_found"]
    ELSE [threw |-> TRUE, type |-> "none"]

directory_iterator_noexcept(f, order) ==
    IF OpensAsDirectory(f)
    THEN [threw |-> FALSE, entries |-> [k \in 1..Len(order) |-> PathAppend(f, order[k])]]
    ELSE [threw |-> FALSE, entries |-> <<>>]

directory_iterator(f, order) ==
    IF OpensAsDirectory(f)
    THEN [threw |-> FALSE, entries |-> [k \in 1..Len(order) |-> PathAppend(f, order[k])]]
    ELSE [threw |-> TRUE, entries |-> <<>>]

-----------------------------------------------------------------------------
(* mex_listfiles.cpp *)

RECURSIVE emplace_all_front(_, _)
emplace_all_front(files, entries) ==
    IF entries = <<>> THEN files
    ELSE emplace_all_front(<<Head(entries)>> \o files, Tail(entries))

RECURSIVE emplace_all_skip(_, _)
emplace_all_skip(files, entries) ==
    IF Len(entries) <= 1 THEN files
    ELSE emplace_all_skip(Append(files, Head(entries)), Tail(entries))

RECURSIVE emplace_all(_, _)
emplace_all(files, entries) ==
    IF entries = <<>> THEN files
    ELSE emplace_all(Append(files, Head(entries)), Tail(entries))

get_contents(f, order) ==
    LET it == directory_iterator(f, order) IN
    IF it.threw THEN [threw |-> TRUE, files |-> <<>>]
    ELSE [threw |-> FALSE, files |-> emplace_all(<<>>, it.entries)]

filetype_to_uint8_cast(type) ==
    CASE type = "none" -> 0
      [] type = "not_found" -> 255
      [] type = "regular" -> 1
      [] type = "directory" -> 2
      [] type = "symlink" -> 3
      [] type = "block" -> 4
      [] type = "character" -> 5
      [] type = "fifo" -> 6
      [] type = "socket" -> 7
      [] type = "unknown" -> 8
      [] OTHER -> 9

filetype_to_uint8(type) ==
    CASE type = "none" -> 0
      [] type = "not_found" -> 1
      [] type = "regular" -> 2
      [] type = "directory" -> 3
      [] type = "symlink" -> 4
      [] type = "block" -> 5
      [] type = "character" -> 6
      [] type = "fifo" -> 7
      [] type = "socket" -> 8
      [] type = "unknown" -> 9
      [] OTHER -> 9

NullCell == "<null>"
NullPath == <<>>
Unset == <<>>

EntryPath(fs, rm, p0, canon) ==
    IF canon THEN canonical(fs, rm, p0) ELSE [threw |-> FALSE, path |-> p0]

EntryName_scanned(p0, q) == filename(p0)

EntryName(p0, q) == filename(q)

Init ==
    /\ nargin \in 1..MaxNargin
    /\ nargout \in MaxOutputs..MaxNargout
    /\ arg0IsChar \in BOOLEAN
    /\ arg0Folder \in Folders
    /\ arg1IsLogical \in BOOLEAN
    /\ arg1Value \in (IF arg1IsLogical THEN BOOLEAN ELSE {FALSE})
    /\ pc = "check_args"
    /\ errmsg = ""
    /\ thrownBy = "none"
    /\ folder = <<>>
    /\ make_canonical = FALSE
    /\ fsys = <<>>
    /\ scan = <<>>
    /\ removed = {}
    /\ paths = <<>>
    /\ N = 0
    /\ out_filepaths = <<>>
    /\ out_filenames = <<>>
    /\ p_out_type = <<>>
    /\ i = 0
    /\ p = <<>>
    /\ outputs = Unset

locals == <<folder, make_canonical, fsys, scan, removed, paths, N, out_filepaths,
            out_filenames, p_out_type, i, p, outputs>>

CheckArgs ==
    /\ pc = "check_args"
    /\ IF nargin # 2
       THEN /\ pc' = "rejected"
            /\ errmsg' = "Incorrect number of input arguments (expected 2)."
       ELSE IF nargout > MaxOutputs
       THEN /\ pc' = "rejected"
            /\ errmsg' = "Incorrect number of output arguments (expected <= 3)."
       ELSE IF ~arg0IsChar
       THEN /\ pc' = "rejected"
            /\ errmsg' = "The input folder must be a character vector."
       ELSE /\ pc' = "read_args"
            /\ errmsg' = errmsg
    /\ UNCHANGED <<inputs, thrownBy, locals>>

ReadArgs ==
    /\ pc = "read_args"
    /\ folder' = arg0Folder
    /\ IF arg1IsLogical
       THEN /\ make_canonical' = arg1Value
            /\ pc' = "scan"
       ELSE \/ /\ pc' = "crashed"
               /\ make_canonical' = make_canonical
            \/ /\ pc' = "scan"
               /\ make_canonical' \in BOOLEAN
    /\ UNCHANGED <<inputs, errmsg, thrownBy, fsys, scan, removed, paths, N,
                   out_filepaths, out_filenames, p_out_type, i, p, outputs>>

GetContents ==
    /\ pc = "scan"
    /\ \E w \in Worlds(folder) :
          LET r == get_contents(folder, w.order) IN
          /\ fsys' = w.fs
          /\ scan' = w.order
          /\ IF r.threw
             THEN /\ pc' = "threw"
                  /\ thrownBy' = "directory_iterator"
                  /\ paths' = paths
             ELSE /\ pc' = "alloc"
                  /\ thrownBy' = thrownBy
                  /\ paths' = r.files
    /\ UNCHANGED <<inputs, errmsg, folder, make_canonical, removed, N, out_filepaths,
                   out_filenames, p_out_type, i, p, outputs>>

Allocate ==
    /\ pc = "alloc"
    /\ N' = Len(paths)
    /\ out_filepaths' = [k \in 1..Len(paths) |-> NullPath]
    /\ out_filenames' = [k \in 1..Len(paths) |-> NullCell]
    /\ p_out_type' = [k \in 1..Len(paths) |-> 0]
    /\ i' = 0
    /\ pc' = "loop"
    /\ UNCHANGED <<inputs, errmsg, thrownBy, folder, make_canonical, fsys, scan,
                   removed, paths, p, outputs>>

CopyEntry ==
    /\ pc = "loop"
    /\ i < Len(paths)
    /\ LET p0 == paths[i + 1]
           c == EntryPath(fsys, removed, p0, make_canonical)
       IN IF c.threw
          THEN /\ pc' = "threw"
               /\ thrownBy' = "canonical"
               /\ UNCHANGED <<out_filepaths, out_filenames, p>>
          ELSE /\ p' = c.path
               /\ out_filepaths' = [out_filepaths EXCEPT ![i + 1] = c.path]
               /\ out_filenames' = [out_filenames EXCEPT ![i + 1] = EntryName(p0, c.path)]
               /\ pc' = "classify"
               /\ thrownBy' = thrownBy
    /\ UNCHANGED <<inputs, errmsg, folder, make_canonical, fsys, scan, removed, paths,
                   N, p_out_type, i, outputs>>

ClassifyEntry ==
    /\ pc = "classify"
    /\ LET s == status(fsys, removed, p)
       IN IF s.threw
          THEN /\ pc' = "threw"
               /\ thrownBy' = "status"
               /\ UNCHANGED <<p_out_type, i, p>>
          ELSE /\ p_out_type' = [p_out_type EXCEPT ![i + 1] = filetype_to_uint8(s.type)]
               /\ i' = i + 1
               /\ p' = <<>>
               /\ pc' = "loop"
               /\ thrownBy' = thrownBy
    /\ UNCHANGED <<inputs, errmsg, folder, make_canonical, fsys, scan, removed, paths,
                   N, out_filepaths, out_filenames, outputs>>

ReturnOutputs ==
    /\ pc = "loop"
    /\ i >= Len(paths)
    /\ outputs' = <<out_filepaths, out_filenames, p_out_type>>
    /\ pc' = "done"
    /\ UNCHANGED <<inputs, errmsg, thrownBy, folder, make_canonical, fsys, scan, removed,
                   paths, N, out_filepaths, out_filenames, p_out_type, i, p>>

(* Another process removes an entry of the scanned directory while the     *)
(* call is between two of its file system queries.                         *)
Unlink ==
    /\ pc \in {"loop", "classify"}
    /\ \E n \in DOMAIN fsys \ removed : removed' = removed \cup {n}
    /\ UNCHANGED <<inputs, pc, errmsg, thrownBy, folder, make_canonical, fsys, scan,
                   paths, N, out_filepaths, out_filenames, p_out_type, i, p, outputs>>

Next ==
    \/ CheckArgs
    \/ ReadArgs
    \/ GetContents
    \/ Allocate
    \/ CopyEntry
    \/ ClassifyEntry
    \/ ReturnOutputs
    \/ Unlink

Spec == Init /\ [][Next]_vars

-----------------------------------------------------------------------------
(* Properties *)

Done == pc = "done"
ScanIdx == 1..Len(scan)
ScanPath(k) == PathAppend(folder, scan[k])
IsSymlink(k) == fsys[scan[k]].kind = "symlink"
Target(k) == Resolve(fsys, {}, scan[k], {})
Current(k) == Resolve(fsys, removed, scan[k], {})
Vanished(k) == Current(k).err = "ENOENT"
ExpectedPath(k) == IF make_canonical THEN Target(k).path ELSE ScanPath(k)
FsAccessed == pc \in {"alloc", "loop", "classify", "done", "threw"}
WellShaped == nargin = 2 /\ nargout <= MaxOutputs /\ arg0IsChar /\ arg1IsLogical

NamedTypes == {"none", "not_found", "regular", "directory", "symlink", "block",
               "character", "fifo", "socket", "unknown"}
PlatformTypes == NamedTypes \cup {"junction"}
TypeTable == [t \in NamedTypes |->
    CASE t = "none" -> 0 [] t = "not_found" -> 1 [] t = "regular" -> 2
      [] t = "directory" -> 3 [] t = "symlink" -> 4 [] t = "block" -> 5
      [] t = "character" -> 6 [] t = "fifo" -> 7 [] t = "socket" -> 8
      [] t = "unknown" -> 9]

CodeOf(t) == IF t \in NamedTypes THEN TypeTable[t] ELSE 9
ExpectedCode(k) == CodeOf(IF Target(k).err = "OK" THEN Target(k).type ELSE "not_found")

FinalComponent(s) ==
    LET seps == {k \in 1..Len(s) : s[k] = Sep}
        from == IF seps = {} THEN 1 ELSE 1 + CHOOSE k \in seps : \A j \in seps : j <= k
    IN IF from > Len(s) THEN "" ELSE s[from]

(* C1: a successful call returns three outputs of length N, the number of  *)
(* entries the scan yielded, and the elements at index k of the three are  *)
(* the path, the name and the type code of the k-th entry of the scan (the *)
(* type code being 1 when the entry was removed before it was classified). *)
C1_LengthAndAlignment ==
    Done =>
      /\ Len(outputs) = 3
      /\ \A o \in 1..3 : Len(outputs[o]) = Len(scan)
      /\ \A k \in ScanIdx :
            /\ outputs[1][k] = ExpectedPath(k)
            /\ outputs[2][k] = FinalComponent(ExpectedPath(k))
            /\ \/ outputs[3][k] = ExpectedCode(k)
               \/ outputs[3][k] = 1 /\ Vanished(k)
            /\ removed = {} => outputs[3][k] = ExpectedCode(k)

C1_Witness ==
    /\ Done
    /\ Len(scan) >= 2
    /\ outputs[1][1] # outputs[1][2]
    /\ outputs[3][1] # outputs[3][2]

(* C2: in every successful result, for either value of the canonicalize    *)
(* flag, names[k] is the final path component of full_paths[k].            *)
C2_NameIsFinalComponent ==
    Done => \A k \in ScanIdx : outputs[2][k] = FinalComponent(outputs[1][k])

C2_Witness ==
    /\ Done
    /\ make_canonical
    /\ \E k \in ScanIdx : IsSymlink(k) /\ outputs[2][k] # scan[k] /\ outputs[2][k] # ""

(* C3 as claimed: the name returned for an entry is the base name of the   *)
(* entry as it appears in the scanned directory, whatever the value of the *)
(* canonicalize flag, symlinks included.                                   *)
C3_NameIndependentOfCanonicalize ==
    Done => \A k \in ScanIdx : outputs[2][k] = FinalComponent(ScanPath(k))

(* C3 amended: without canonicalization the name is the base name of the   *)
(* entry in the scanned directory; with canonicalization it is the final   *)
(* component of the canonical path, which is the entry's base name for an  *)
(* entry that is not a symlink and the base name of the resolved target    *)
(* for a symlink.                                                          *)
C3_NameOfCanonicalPath ==
    Done => \A k \in ScanIdx :
               IF make_canonical /\ IsSymlink(k)
               THEN outputs[2][k] = FinalComponent(Target(k).path)
               ELSE outputs[2][k] = scan[k]

C3_Witness ==
    /\ Done
    /\ make_canonical
    /\ \E j, k \in ScanIdx :
          /\ IsSymlink(j) /\ outputs[2][j] # scan[j]
          /\ ~IsSymlink(k) /\ outputs[2][k] = scan[k]

Record(k) == <<outputs[1][k], outputs[2][k], outputs[3][k]>>

(* C4 as claimed: on success no entry of the scan is omitted and no two    *)
(* result records are duplicates, for either value of the flag.            *)
C4_NoOmissionNoDuplicate ==
    Done =>
      /\ Len(outputs[1]) = Len(scan)
      /\ \A k \in ScanIdx : \E j \in DOMAIN outputs[1] : outputs[1][j] = ExpectedPath(k)
      /\ \A j, k \in DOMAIN outputs[1] : j # k => Record(j) # Record(k)

(* C4 amended: on success the result holds one record per entry of the     *)
(* scan, none omitted; without canonicalization no two records are         *)
(* duplicates (with it, a symlink and the entry it resolves to give equal  *)
(* records).                                                               *)
C4_NoOmissionDistinctWhenRaw ==
    Done =>
      /\ Len(outputs[1]) = Len(scan)
      /\ \A k \in ScanIdx : \E j \in DOMAIN outputs[1] : outputs[1][j] = ExpectedPath(k)
      /\ ~make_canonical => \A j, k \in DOMAIN outputs[1] : j # k => Record(j) # Record(k)

C4_Witness ==
    /\ Done
    /\ ~make_canonical
    /\ Len(scan) >= 2
    /\ \E j, k \in ScanIdx : IsSymlink(j) /\ fsys[scan[j]].target = scan[k]

ClassifyStep == pc = "classify" /\ pc' # "classify"
StatusFails == Stat(fsys, removed, p).err # "OK"

(* C5: a failure of the per-entry status query never aborts the call, and  *)
(* the failing entry's type code is 9.                                     *)
C5_StatusFailureAbsorbed ==
    [][(ClassifyStep /\ StatusFails) => (pc' = "loop" /\ p_out_type'[i + 1] = 9)]_vars

CanonicalFails(k) == Stat(fsys, {}, ScanPath(k)).err # "OK"

(* C6: with canonicalize = true, if canonicalization fails for any entry   *)
(* of the scan (as listed, or because the entry was removed before it was  *)
(* canonicalized), the call never completes and no output is returned.     *)
C6_CanonicalAllOrNothing ==
    /\ (make_canonical /\ \E k \in ScanIdx : CanonicalFails(k)) =>
          /\ pc # "done"
          /\ outputs = Unset
    /\ thrownBy = "canonical" => (make_canonical /\ pc = "threw" /\ outputs = Unset)
    /\ (Done /\ make_canonical) => \A k \in ScanIdx : outputs[1][k] = Target(k).path

C6_Witness ==
    /\ pc = "threw"
    /\ thrownBy = "canonical"
    /\ i >= 1
    /\ out_filepaths[1] # NullPath
    /\ outputs = Unset

(* C7: listing a path that does not exist or is not a directory fails in   *)
(* the scan: the outputs are never allocated and no output slot is set.    *)
C7_BadFolderNoOutput ==
    ~OpensAsDirectory(arg0Folder) =>
        /\ pc \notin {"alloc", "loop", "classify", "done"}
        /\ pc = "threw" => thrownBy = "directory_iterator"
        /\ out_filepaths = <<>> /\ out_filenames = <<>> /\ p_out_type = <<>>
        /\ outputs = Unset

C7_Witness ==
    /\ pc = "threw"
    /\ thrownBy = "directory_iterator"
    /\ folder = FolderF
    /\ outputs = Unset

(* C8: the type-code mapping is total into 0..9, matches the table on the  *)
(* ten named types, is injective on them, maps every other platform type   *)
(* to 9, and every element of the types output is in 0..9.  The facts      *)
(* about the mapping do not depend on the state and are evaluated on entry *)
(* to mexFunction; the fact about the types output is evaluated everywhere.*)
C8_TypeTable ==
    /\ pc = "check_args" =>
          /\ \A t \in NamedTypes : filetype_to_uint8(t) = TypeTable[t]
          /\ Cardinality({filetype_to_uint8(t) : t \in NamedTypes}) = Cardinality(NamedTypes)
          /\ \A t \in PlatformTypes \ NamedTypes : filetype_to_uint8(t) = 9
    /\ \A k \in DOMAIN p_out_type : p_out_type[k] \in 0..9

C8_Witness ==
    /\ Done
    /\ Len(scan) >= 2
    /\ fsys[scan[1]].kind = "other" /\ outputs[3][1] = 9
    /\ fsys[scan[2]].kind = "fifo" /\ outputs[3][2] = 7

(* C9: an ill-shaped argument list (wrong number of inputs, too many       *)
(* outputs, first argument not a character vector, second argument not a   *)
(* logical) is rejected before any file system access.                     *)
C9_ShapeErrorsBeforeScan ==
    ~WellShaped => ~FsAccessed

(* C10: classification follows symlinks: a symlink entry is reported with  *)
(* the type code of its final target (1 when the link or its target was    *)
(* removed before the entry was classified), a dangling symlink listed     *)
(* without canonicalization is reported as 1, and code 4 is never in the   *)
(* types.                                                                  *)
C10_FollowsSymlinks ==
    /\ \A k \in DOMAIN p_out_type : p_out_type[k] # 4
    /\ Done => \A k \in ScanIdx :
          IsSymlink(k) =>
             IF Target(k).err = "OK"
             THEN /\ \/ outputs[3][k] = CodeOf(Target(k).type)
                     \/ outputs[3][k] = 1 /\ Vanished(k)
                  /\ removed = {} => outputs[3][k] = CodeOf(Target(k).type)
             ELSE /\ ~make_canonical
                  /\ outputs[3][k] = 1
                  /\ Target(k).err = "ENOENT" \/ Vanished(k)

C10_Witness ==
    /\ Done
    /\ ~make_canonical
    /\ Len(scan) >= 2
    /\ IsSymlink(1) /\ Target(1).err = "ENOENT" /\ outputs[3][1] = 1
    /\ IsSymlink(2) /\ Target(2).err = "OK" /\ outputs[3][2] = 3
====
